---- MODULE Spec2Model ----
(***************************************************************************)
(* A model of r1.py, the DeepSeek Engineer session: the conversation       *)
(* history (the context ledger), the file helpers create_file and          *)
(* apply_diff_edit, path normalisation, the compaction and the response    *)
(* validation of stream_openai_response, and the loop of main().           *)
(*                                                                         *)
(* Texts.  A file text is the record [body, pad, utf8]: the characters of  *)
(* body (a sequence over Chars) followed by pad copies of a filler         *)
(* character that occurs in no snippet.  Its length is Len(body) + pad, so *)
(* the 5,000,000 character ceiling of create_file keeps its real value.    *)
(* utf8 is FALSE for a file whose bytes are no UTF-8 text: reading it      *)
(* raises UnicodeDecodeError, a ValueError.  Snippets are plain sequences  *)
(* over Chars.                                                             *)
(*                                                                         *)
(* Paths.  A path is the record [abs, segs]; the working directory is Cwd. *)
(* The modelled file system holds regular files only (no symbolic links,   *)
(* no directories in the place of files, no read-only files): a file is    *)
(* missing, or it can be opened and written.                               *)
(*                                                                         *)
(* Messages.  A message is a record with its role and a kind that stands   *)
(* for the shape of its content string:                                    *)
(*   prompt     the system prompt                                          *)
(*   file       "Content of file '<path>':\n\n<content>"                   *)
(*   op         "File operation: <what> '<path>'"                          *)
(*   user       the user's text (turn: which model turn typed it; quotes:  *)
(*              the paths p whose marker "Content of file 'p'" the text    *)
(*              spells out literally)                                      *)
(*   assistant  the raw JSON answer of a model turn                        *)
(* The texts of files and of backend payloads drawn below spell out no     *)
(* marker; a user text may, and so may the name of a file.                 *)
(***************************************************************************)
EXTENDS Integers, Sequences, FiniteSets, TLC

VARIABLES
    files,                \* the file system: canonical path -> text, for the files that exist
    conversation_history, \* the ledger (r1.py:240)
    pc,                   \* where main() stands
    turn,                 \* model turns started so far
    adds,                 \* /add directives handled so far
    cleaned_history,      \* the list rebuilt by the last compaction (r1.py:278)
    sent,                 \* the messages handed to the backend by the last call (r1.py:307)
    valid_files,          \* keys of valid_files of the running stream_openai_response
    delivered,            \* what the backend delivered to the last call (a Response kind)
    files_to_create,      \* response_data.files_to_create still to be applied
    files_to_edit,        \* response_data.files_to_edit still to be applied
    confirm,              \* the answer at the confirmation prompt of the running turn
    proposed,             \* creates and edits the backend has proposed so far
    console               \* the diagnostics printed by the last step

vars == <<files, conversation_history, pc, turn, adds, cleaned_history, sent,
          valid_files, delivered, files_to_create, files_to_edit, confirm, proposed,
          console>>

-----------------------------------------------------------------------------
(* Bounds of the model. *)

MaxInputs == 2
MaxProposals == 2
MaxTalkInputs == 5
MaxDiskInputs == 2
MaxSegs == 2

(* The ceiling of create_file. *)
MaxContentLen == 5000000

-----------------------------------------------------------------------------
(* Texts. *)

Chars == {"a", "b"}

Text(body) == [body |-> body, pad |-> 0, utf8 |-> TRUE]

Padded(body, n) == [body |-> body, pad |-> n, utf8 |-> TRUE]

\* The bytes of a file that is no UTF-8 text.
NotUtf8 == [body |-> <<>>, pad |-> 0, utf8 |-> FALSE]

\* f.read() of read_local_file returns: the bytes decode as UTF-8.
Decodes(content) == content.utf8

ContentLen(content) == Len(content.body) + content.pad

\* str.count: the non-overlapping occurrences, scanning left to right; the
\* empty snippet occurs len + 1 times.
RECURSIVE CountFrom(_, _, _)
CountFrom(s, sub, i) ==
    IF i + Len(sub) - 1 > Len(s) THEN 0
    ELSE IF SubSeq(s, i, i + Len(sub) - 1) = sub
         THEN 1 + CountFrom(s, sub, i + Len(sub))
         ELSE CountFrom(s, sub, i + 1)

count(content, sub) ==
    IF sub = <<>> THEN ContentLen(content) + 1 ELSE CountFrom(content.body, sub, 1)

\* str.find: the index of the first occurrence, 0 when there is none.
RECURSIVE FindFrom(_, _, _)
FindFrom(s, sub, i) ==
    IF i + Len(sub) - 1 > Len(s) THEN 0
    ELSE IF SubSeq(s, i, i + Len(sub) - 1) = sub THEN i
         ELSE FindFrom(s, sub, i + 1)

\* content.replace(old, new, 1)
replace_first(content, old, new) ==
    LET s == content.body
        i == FindFrom(s, old, 1)
    IN  IF i = 0 THEN content
        ELSE [content EXCEPT
                 !.body = SubSeq(s, 1, i - 1) \o new \o SubSeq(s, i + Len(old), Len(s))]

-----------------------------------------------------------------------------
(* Paths. *)

Cwd == <<"w">>

Rel(segs) == [abs |-> FALSE, segs |-> segs]

Abs(segs) == [abs |-> TRUE, segs |-> segs]

Range(s) == {s[i] : i \in DOMAIN s}

\* Path.absolute() in the place of Path.resolve(): nothing is collapsed.
Walk_keeping_parent(base, segs) == base \o segs

\* Path.resolve(): relative paths start at the working directory, "." is
\* dropped and ".." steps to the parent (the root is its own parent).
RECURSIVE Walk(_, _)
Walk(base, segs) ==
    IF segs = <<>> THEN base
    ELSE LET s == Head(segs)
             next == IF s = "." THEN base
                     ELSE IF s = ".."
                          THEN (IF base = <<>> THEN base ELSE SubSeq(base, 1, Len(base) - 1))
                          ELSE Append(base, s)
         IN  Walk(next, Tail(segs))

resolve(path) == Abs(Walk(IF path.abs THEN <<>> ELSE Cwd, path.segs))

\* normalize_path made of Path.absolute() alone, with no test of the parts.
normalize_path_absolute_only(path) ==
    [ok |-> TRUE, error |-> "none",
     path |-> Abs((IF path.abs THEN <<>> ELSE Cwd) \o path.segs)]

normalize_path(path) ==
    LET resolved == resolve(path)
    IN  IF ".." \in Range(resolved.segs)
        THEN [ok |-> FALSE, error |-> "ValueError", path |-> resolved]
        ELSE [ok |-> TRUE, error |-> "none", path |-> resolved]

\* The recognised extension of a word's last segment ("" when it has none).
Extension(seg) ==
    IF seg \in {"a.py", "b.py", "Content of file 'x.py"} THEN ".py" ELSE ""

\* "Content of file '" in str(path): a file or directory is named so.
SpellsHeader(path) ==
    \E i \in DOMAIN path.segs : path.segs[i] = "Content of file 'x.py"

\* guess_files_in_message's test of one word: a recognised extension or a "/".
PathLike(path) ==
    \/ path.abs
    \/ Len(path.segs) > 1
    \/ \E i \in DOMAIN path.segs : Extension(path.segs[i]) # ""

-----------------------------------------------------------------------------
(* The file system. *)

Exists(fs, path) == resolve(path) \in DOMAIN fs

read_local_file(fs, path) == fs[resolve(path)]

WriteFile(fs, path, content) ==
    LET target == resolve(path)
    IN  [q \in DOMAIN fs \cup {target} |-> IF q = target THEN content ELSE fs[q]]

-----------------------------------------------------------------------------
(* Messages. *)

SystemPrompt == [role |-> "system", kind |-> "prompt"]

FileEntry(path, content) ==
    [role |-> "system", kind |-> "file", path |-> path, content |-> content]

FileOp(what, path) ==
    [role |-> "system", kind |-> "op", what |-> what, path |-> path]

UserMsg(n, text) ==
    [role |-> "user", kind |-> "user", turn |-> n, quotes |-> text.quotes]

AssistantMsg(n) ==
    [role |-> "assistant", kind |-> "assistant", turn |-> n]

\* "Content of file '" in msg["content"]
HasFileHeader(msg) ==
    \/ msg.kind = "file"
    \/ msg.kind = "user" /\ msg.quotes # {}
    \/ msg.kind = "op" /\ SpellsHeader(msg.path)

\* A test of the marker that finds it in no message.
HasMarker_never(msg, path) == FALSE

\* f"Content of file '{path}'" in msg["content"]
HasMarker(msg, path) ==
    \/ msg.kind = "file" /\ msg.path = path
    \/ msg.kind = "user" /\ path \in msg.quotes

\* any(file_marker in msg["content"] for msg in conversation_history)
InContext(history, path) ==
    \E i \in DOMAIN history : HasMarker(history[i], path)

-----------------------------------------------------------------------------
(* Diagnostics printed on the console. *)

Diag(kind, path, n) == [kind |-> kind, path |-> path, n |-> n]

NoPath == Abs(<<>>)

-----------------------------------------------------------------------------
(* create_file and apply_diff_edit.  Each returns the file system and the  *)
(* history it leaves, what it printed and the exception it let escape.     *)
(* apply_diff_edit on a file that does not decode: the UnicodeDecodeError  *)
(* is a ValueError, and its handler prints the variable content, which was *)
(* never bound (r1.py:188): UnboundLocalError leaves the function.         *)

Result(fs, history, printed, raised) ==
    [files |-> fs, history |-> history, printed |-> printed, raised |-> raised]

\* create_file refusing content of the ceiling's length too (>= for >).
create_file_strict_ceiling(fs, history, path, content) ==
    LET normalized == normalize_path(path)
    IN  IF ~normalized.ok \/ ContentLen(content) >= MaxContentLen
        THEN Result(fs, history, <<>>, "ValueError")
        ELSE Result(WriteFile(fs, path, content),
                    history \o <<FileOp("Created/updated file at", path),
                                 FileEntry(normalized.path, content)>>,
                    <<Diag("created", path, 0)>>,
                    "none")

\* create_file recording the operation but not the new content.
create_file_without_context(fs, history, path, content) ==
    LET normalized == normalize_path(path)
    IN  IF ~normalized.ok \/ ContentLen(content) > MaxContentLen
        THEN Result(fs, history, <<>>, "ValueError")
        ELSE Result(WriteFile(fs, path, content),
                    history \o <<FileOp("Created/updated file at", path)>>,
                    <<Diag("created", path, 0)>>,
                    "none")

create_file(fs, history, path, content) ==
    LET normalized == normalize_path(path)
    IN  IF ~normalized.ok
        THEN Result(fs, history, <<>>, "ValueError")
        ELSE IF ContentLen(content) > MaxContentLen
        THEN Result(fs, history, <<>>, "ValueError")
        ELSE Result(WriteFile(fs, path, content),
                    history \o <<FileOp("Created/updated file at", path),
                                 FileEntry(normalized.path, content)>>,
                    <<Diag("created", path, 0)>>,
                    "none")

\* apply_diff_edit without the test for several occurrences: the first one
\* is replaced, as its docstring still says.
apply_diff_edit_first_occurrence(fs, history, path, original_snippet, new_snippet) ==
    IF ~Exists(fs, path)
    THEN Result(fs, history, <<Diag("file_not_found", path, 0)>>, "none")
    ELSE LET content == read_local_file(fs, path)
             updated_content == replace_first(content, original_snippet, new_snippet)
             written == create_file(fs, history, path, updated_content)
         IN  IF ~Decodes(content)
             THEN Result(fs, history, <<Diag("undecodable", path, 0)>>, "UnboundLocalError")
             ELSE IF count(content, original_snippet) = 0
             THEN Result(fs, history, <<Diag("snippet_not_found", path, 0)>>, "none")
             ELSE IF written.raised # "none"
             THEN Result(fs, history, <<Diag("write_rejected", path, 0)>>, "none")
             ELSE Result(written.files,
                         written.history \o <<FileOp("Applied diff edit to", path)>>,
                         written.printed \o <<Diag("applied", path, 0)>>,
                         "none")

apply_diff_edit(fs, history, path, original_snippet, new_snippet) ==
    IF ~Exists(fs, path)
    THEN Result(fs, history, <<Diag("file_not_found", path, 0)>>, "none")
    ELSE LET content == read_local_file(fs, path)
             occurrences == count(content, original_snippet)
         IN  IF ~Decodes(content)
             THEN Result(fs, history, <<Diag("undecodable", path, 0)>>, "UnboundLocalError")
             ELSE IF occurrences = 0
             THEN Result(fs, history, <<Diag("snippet_not_found", path, 0)>>, "none")
             ELSE IF occurrences > 1
             THEN Result(fs, history, <<Diag("ambiguous", path, occurrences)>>, "none")
             ELSE LET updated_content == replace_first(content, original_snippet, new_snippet)
                      written == create_file(fs, history, path, updated_content)
                  IN  IF written.raised # "none"
                      THEN Result(fs, history, <<Diag("write_rejected", path, 0)>>, "none")
                      ELSE Result(written.files,
                                  written.history \o <<FileOp("Applied diff edit to", path)>>,
                                  written.printed \o <<Diag("applied", path, 0)>>,
                                  "none")

-----------------------------------------------------------------------------
(* stream_openai_response, first part: the compaction. *)

\* The compaction keeping one file message only, the latest.
file_context_latest(msgs) ==
    LET kept == SelectSeq(msgs, LAMBDA msg : msg.role = "system" /\ HasFileHeader(msg))
    IN  IF kept = <<>> THEN kept ELSE <<kept[Len(kept)]>>

\* The loop over conversation_history[1:] filling file_context.
RECURSIVE file_context_of(_)
file_context_of(msgs) ==
    IF msgs = <<>> THEN <<>>
    ELSE LET msg == Head(msgs)
         IN  IF msg.role = "system" /\ HasFileHeader(msg)
             THEN <<msg>> \o file_context_of(Tail(msgs))
             ELSE file_context_of(Tail(msgs))

\* The same loop filling user_assistant_pairs (the elif branch).
RECURSIVE user_assistant_of(_)
user_assistant_of(msgs) ==
    IF msgs = <<>> THEN <<>>
    ELSE LET msg == Head(msgs)
         IN  IF ~(msg.role = "system" /\ HasFileHeader(msg))
                /\ msg.role \in {"user", "assistant"}
             THEN <<msg>> \o user_assistant_of(Tail(msgs))
             ELSE user_assistant_of(Tail(msgs))

\* The cut to an even number made at the front: the oldest message goes.
complete_pairs_drop_first(msgs) ==
    IF Len(msgs) % 2 # 0 THEN Tail(msgs) ELSE msgs

\* The compaction without the cut to complete pairs.
complete_pairs_uncut(msgs) == msgs

\* Only keep complete user-assistant pairs.
complete_pairs(msgs) ==
    IF Len(msgs) % 2 # 0 THEN SubSeq(msgs, 1, Len(msgs) - 1) ELSE msgs

\* The rebuilt history with every user and assistant message, paired or not.
compact_keeping_unpaired(history, user_msg) ==
    <<history[1]>>
        \o file_context_of(Tail(history))
        \o user_assistant_of(Tail(history))
        \o <<user_msg>>

\* The rebuilt history with the file messages before the system prompt.
compact_files_first(history, user_msg) ==
    file_context_of(Tail(history))
        \o <<history[1]>>
        \o complete_pairs(user_assistant_of(Tail(history)))
        \o <<user_msg>>

compact(history, user_msg) ==
    <<history[1]>>
        \o file_context_of(Tail(history))
        \o complete_pairs(user_assistant_of(Tail(history)))
        \o <<user_msg>>

-----------------------------------------------------------------------------
(* stream_openai_response, second part: the files guessed from the text.   *)
(* A user text is the record [mentions, quotes]: the words that name a     *)
(* path, in order and stripped of quotes, and the paths whose marker the   *)
(* text spells out.                                                        *)

RECURSIVE guess_files_in_message(_)
guess_files_in_message(words) ==
    IF words = <<>> THEN <<>>
    ELSE LET word == Head(words)
             rest == guess_files_in_message(Tail(words))
         IN  IF PathLike(word) /\ normalize_path(word).ok
             THEN <<normalize_path(word).path>> \o rest
             ELSE rest

\* The loop over potential_paths: [history, valid, printed, raised].  Only
\* OSError is caught: a file that does not decode ends the loop and the call.
RECURSIVE inject_guessed(_, _, _, _, _)
inject_guessed(fs, history, valid, printed, paths) ==
    IF paths = <<>>
    THEN [history |-> history, valid |-> valid, printed |-> printed, raised |-> "none"]
    ELSE LET path == Head(paths)
         IN  IF Exists(fs, path) /\ ~Decodes(read_local_file(fs, path))
             THEN [history |-> history, valid |-> valid, printed |-> printed,
                   raised |-> "UnicodeDecodeError"]
             ELSE IF Exists(fs, path)
             THEN inject_guessed(
                      fs,
                      IF InContext(history, path) THEN history
                      ELSE Append(history, FileEntry(path, read_local_file(fs, path))),
                      valid \cup {path}, printed, Tail(paths))
             ELSE inject_guessed(fs, history, valid,
                                 Append(printed, Diag("cannot_proceed", path, 0)),
                                 Tail(paths))

-----------------------------------------------------------------------------
(* stream_openai_response, third part: the edits of the parsed response.   *)

\* [ok, raised, history, printed]: OSError is caught here, a ValueError
\* (a traversal, a file that does not decode) by the caller.
ensure_file_in_context(fs, history, path) ==
    LET normalized == normalize_path(path)
    IN  IF ~normalized.ok
        THEN [ok |-> FALSE, raised |-> "ValueError", history |-> history, printed |-> <<>>]
        ELSE IF ~Exists(fs, normalized.path)
        THEN [ok |-> FALSE, raised |-> "none", history |-> history,
              printed |-> <<Diag("could_not_read", path, 0)>>]
        ELSE IF ~Decodes(read_local_file(fs, normalized.path))
        THEN [ok |-> FALSE, raised |-> "UnicodeDecodeError", history |-> history,
              printed |-> <<>>]
        ELSE [ok |-> TRUE, raised |-> "none",
              history |-> IF InContext(history, normalized.path) THEN history
                          ELSE Append(history,
                                      FileEntry(normalized.path,
                                                read_local_file(fs, normalized.path))),
              printed |-> <<>>]

\* The loop over parsed_response["files_to_edit"]: [history, accepted, printed].
RECURSIVE validate_edits(_, _, _, _, _, _)
validate_edits(fs, history, valid, accepted, printed, edits) ==
    IF edits = <<>>
    THEN [history |-> history, accepted |-> accepted, printed |-> printed]
    ELSE LET edit == Head(edits)
             normalized == normalize_path(edit.path)
         IN  IF ~normalized.ok
             THEN validate_edits(fs, history, valid, accepted,
                                 Append(printed, Diag("skipping_invalid_path", edit.path, 0)),
                                 Tail(edits))
             ELSE IF normalized.path \in valid
             THEN validate_edits(fs, history, valid,
                                 Append(accepted, [edit EXCEPT !.path = normalized.path]),
                                 printed, Tail(edits))
             ELSE LET ensured == ensure_file_in_context(fs, history, normalized.path)
                  IN  IF ensured.raised # "none"
                      THEN validate_edits(fs, history, valid, accepted,
                               Append(printed, Diag("skipping_invalid_path", edit.path, 0)),
                               Tail(edits))
                      ELSE IF ensured.ok
                      THEN validate_edits(fs, ensured.history, valid,
                               Append(accepted, [edit EXCEPT !.path = normalized.path]),
                               printed \o ensured.printed, Tail(edits))
                      ELSE validate_edits(fs, ensured.history, valid, accepted,
                               printed \o ensured.printed, Tail(edits))

-----------------------------------------------------------------------------
(* The inputs: what the user types and what the backend delivers. *)

PathA == Rel(<<"a.py">>)

PathADot == Rel(<<".", "a.py">>)

PathB == Rel(<<"..", "b.py">>)

RawPaths == {PathA, PathADot, PathB}

CanonA == Abs(<<"w", "a.py">>)

CanonB == Abs(<<"b.py">>)

PlainText == [mentions |-> <<>>, quotes |-> {}]

Mention(path) == [mentions |-> <<path>>, quotes |-> {}]

\* The text "Content of file '<path>'": its last word names the path.
Quote(path) == [mentions |-> <<path>>, quotes |-> {path}]

UserTexts == {PlainText, Quote(CanonA)} \cup {Mention(path) : path \in RawPaths}

\* A text of exactly the ceiling's length, with a single "a".
AtCeiling == Padded(<<"a">>, MaxContentLen - 1)

\* The same text one character longer.
OverCeiling == Padded(<<"a">>, MaxContentLen)

FileToCreate(path, content) == [path |-> path, content |-> content]

FileToEdit(path, original_snippet, new_snippet) ==
    [path |-> path, original_snippet |-> original_snippet, new_snippet |-> new_snippet]

CreateChoices ==
    {FileToCreate(PathA, AtCeiling),
     FileToCreate(PathA, OverCeiling),
     FileToCreate(PathB, Text(<<"a", "b">>))}

EditChoices ==
    {FileToEdit(PathADot, <<"a">>, <<"b">>),
     FileToEdit(PathADot, <<"a">>, <<"a", "b">>),
     FileToEdit(PathB, <<"a">>, <<"b">>)}

SeqsUpTo(S, n) == UNION {[1..k -> S] : k \in 0..n}

\* kind: api_error (the call or the stream raised), bad_json (json.loads
\* raised), invalid (JSON that AssistantResponse rejects), ok.
Response(kind, creates, edits) == [kind |-> kind, creates |-> creates, edits |-> edits]

Proposals(response) == Len(response.creates) + Len(response.edits)

\* The failures that propose at most n edits: the call raised, the output is
\* no JSON, the JSON is no AssistantResponse.
Failures(n) ==
    {Response("api_error", <<>>, <<>>), Response("bad_json", <<>>, <<>>)}
    \cup {Response("invalid", <<>>, edits) : edits \in SeqsUpTo(EditChoices, n)}

\* The answers that propose at most n creates and edits.
Responses(n) ==
    Failures(n)
    \cup {response \in {Response("ok", creates, edits) :
                            creates \in SeqsUpTo(CreateChoices, n),
                            edits \in SeqsUpTo(EditChoices, n)} :
            Proposals(response) <= n}

InitialFiles ==
    {[path \in present |-> IF path = CanonA THEN content ELSE Text(<<"b">>)] :
        present \in SUBSET {CanonA, CanonB},
        content \in {Text(<<"a", "b">>), Text(<<"a", "a">>)}}

-----------------------------------------------------------------------------
(* The session. *)

Init ==
    /\ files \in InitialFiles
    /\ conversation_history = <<SystemPrompt>>
    /\ pc = "prompt"
    /\ turn = 0
    /\ adds = 0
    /\ cleaned_history = <<>>
    /\ sent = <<>>
    /\ valid_files = {}
    /\ delivered = "none"
    /\ files_to_create = <<>>
    /\ files_to_edit = <<>>
    /\ confirm = "none"
    /\ proposed = 0
    /\ console = <<>>

\* Where main() goes after stream_openai_response returned or a loop ended.
AfterCreates(edits) == IF edits # <<>> THEN "confirm" ELSE "prompt"

\* main() presenting the edits before it applies the creates.
AfterResponse_edits_first(creates, edits) ==
    IF edits # <<>> THEN "confirm" ELSE IF creates # <<>> THEN "creates" ELSE "prompt"

AfterResponse(creates, edits) ==
    IF creates # <<>> THEN "creates" ELSE AfterCreates(edits)

\* The process has ended: the files stay.  What it held in memory is gone,
\* but for the history, which is kept as an escaping exception found it.
EndedWith(how, history) ==
    /\ pc' = how
    /\ conversation_history' = history
    /\ cleaned_history' = <<>>
    /\ sent' = <<>>
    /\ valid_files' = {}
    /\ delivered' = "none"
    /\ files_to_create' = <<>>
    /\ files_to_edit' = <<>>
    /\ confirm' = "none"
    /\ console' = <<>>
    /\ turn' = 0
    /\ adds' = 0
    /\ proposed' = 0

Ended(how) ==
    EndedWith(how, IF how = "aborted" THEN conversation_history ELSE <<>>)

\* try_handle_add_command for the input "/add <path>": [history, printed,
\* raised].  Only OSError is caught.
try_handle_add_command(fs, history, path) ==
    IF ~Exists(fs, path)
    THEN [history |-> history, printed |-> <<Diag("could_not_add", path, 0)>>,
          raised |-> "none"]
    ELSE LET content == read_local_file(fs, path)
             normalized == normalize_path(path)
         IN  IF ~Decodes(content)
             THEN [history |-> history, printed |-> <<>>, raised |-> "UnicodeDecodeError"]
             ELSE IF ~normalized.ok
             THEN [history |-> history, printed |-> <<>>, raised |-> "ValueError"]
             ELSE [history |-> Append(history, FileEntry(normalized.path, content)),
                   printed |-> <<Diag("added", normalized.path, 0)>>,
                   raised |-> "none"]

\* main() on the input "/add <path>": an exception of the directive is
\* caught nowhere and ends main().
AddCommand(path) ==
    /\ pc = "prompt"
    /\ LET done == try_handle_add_command(files, conversation_history, path)
       IN  IF done.raised # "none"
           THEN Ended("aborted")
           ELSE /\ adds' = adds + 1
                /\ conversation_history' = done.history
                /\ console' = done.printed
                /\ UNCHANGED <<pc, turn, cleaned_history, sent, valid_files, delivered,
                               files_to_create, files_to_edit, confirm, proposed>>
    /\ UNCHANGED files

\* stream_openai_response up to the call of the backend.
StartTurn(text) ==
    /\ pc = "prompt"
    /\ LET cleaned == compact(conversation_history, UserMsg(turn + 1, text))
           guessed == inject_guessed(files, cleaned, {}, <<>>,
                                     guess_files_in_message(text.mentions))
       IN  IF guessed.raised # "none"
           THEN EndedWith("aborted", guessed.history)
           ELSE /\ turn' = turn + 1
                /\ cleaned_history' = cleaned
                /\ conversation_history' = guessed.history
                /\ valid_files' = guessed.valid
                /\ console' = guessed.printed
                /\ sent' = guessed.history
                /\ pc' = "awaiting"
                /\ delivered' = "none"
                /\ confirm' = "none"
                /\ files_to_create' = <<>>
                /\ files_to_edit' = <<>>
                /\ UNCHANGED <<adds, proposed>>
    /\ UNCHANGED files

\* The raw answer stored before it is parsed, whatever it is.
with_answer_always(history, kind, n) == Append(history, AssistantMsg(n))

\* The history after the answer was handled: the raw answer is stored only
\* when AssistantResponse accepted it (r1.py:349-355).
with_answer(history, kind, n) ==
    IF kind = "ok" THEN Append(history, AssistantMsg(n)) ELSE history

\* What stream_openai_response returns: the validated response, or the
\* fallback AssistantResponse(assistant_reply=error_msg, files_to_create=[]).
returned(kind, creates, edits) ==
    IF kind = "ok" THEN [creates |-> creates, edits |-> edits]
    ELSE [creates |-> <<>>, edits |-> <<>>]

\* stream_openai_response from the backend's answer to its return, and
\* main() up to its next call or prompt.
BackendReturns(response) ==
    /\ pc = "awaiting"
    /\ proposed' = proposed + Proposals(response)
    /\ delivered' = response.kind
    /\ LET parsed == response.kind \in {"ok", "invalid"}
           validated ==
               IF parsed
               THEN validate_edits(files, conversation_history, valid_files,
                                   <<>>, <<>>, response.edits)
               ELSE [history |-> conversation_history, accepted |-> <<>>, printed |-> <<>>]
           response_data == returned(response.kind, response.creates, validated.accepted)
       IN  /\ conversation_history' = with_answer(validated.history, response.kind, turn)
           /\ console' = IF response.kind = "ok" THEN validated.printed
                         ELSE Append(validated.printed,
                                     Diag(IF response.kind = "bad_json" THEN "bad_json"
                                          ELSE "api_error", NoPath, 0))
           /\ files_to_create' = response_data.creates
           /\ files_to_edit' = response_data.edits
           /\ pc' = AfterResponse(response_data.creates, response_data.edits)
    /\ valid_files' = {}
    /\ UNCHANGED <<files, turn, adds, cleaned_history, sent, confirm>>

\* One pass of the loop over response_data.files_to_create: an exception of
\* create_file is caught nowhere and ends main().
ApplyCreate ==
    /\ pc = "creates"
    /\ LET file_info == Head(files_to_create)
           made == create_file(files, conversation_history, file_info.path, file_info.content)
       IN  /\ files' = made.files
           /\ IF made.raised # "none"
              THEN Ended("aborted")
              ELSE /\ conversation_history' = made.history
                   /\ files_to_create' = Tail(files_to_create)
                   /\ pc' = IF Tail(files_to_create) # <<>> THEN "creates"
                            ELSE AfterCreates(files_to_edit)
                   /\ console' = made.printed
                   /\ UNCHANGED <<turn, adds, cleaned_history, sent, valid_files, delivered,
                                  files_to_edit, confirm, proposed>>

\* The confirmation prompt taking the declined proposal out of the history.
Confirm_discarding_proposal(answer) ==
    /\ pc = "confirm"
    /\ confirm' = answer
    /\ IF answer = "y"
       THEN /\ pc' = "edits"
            /\ console' = <<>>
            /\ UNCHANGED <<files_to_edit, conversation_history>>
       ELSE /\ pc' = "prompt"
            /\ console' = <<Diag("skipped", NoPath, 0)>>
            /\ files_to_edit' = <<>>
            /\ conversation_history' =
                   SelectSeq(conversation_history, LAMBDA msg : msg # AssistantMsg(turn))
    /\ UNCHANGED <<files, turn, adds, cleaned_history, sent,
                   valid_files, delivered, files_to_create, proposed>>

\* show_diff_table and the answer at the confirmation prompt.
Confirm(answer) ==
    /\ pc = "confirm"
    /\ confirm' = answer
    /\ IF answer = "y"
       THEN /\ pc' = "edits"
            /\ console' = <<>>
            /\ UNCHANGED files_to_edit
       ELSE /\ pc' = "prompt"
            /\ console' = <<Diag("skipped", NoPath, 0)>>
            /\ files_to_edit' = <<>>
    /\ UNCHANGED <<files, conversation_history, turn, adds, cleaned_history, sent,
                   valid_files, delivered, files_to_create, proposed>>

\* End of input or an interrupt at the confirmation prompt: console.input
\* of r1.py:414 stands in no try.
ConfirmInterrupted ==
    /\ pc = "confirm"
    /\ Ended("aborted")
    /\ UNCHANGED files

\* One pass of the loop over response_data.files_to_edit: an exception
\* that leaves apply_diff_edit is caught nowhere and ends main().
ApplyEdit ==
    /\ pc = "edits"
    /\ LET edit_info == Head(files_to_edit)
           done == apply_diff_edit(files, conversation_history, edit_info.path,
                                   edit_info.original_snippet, edit_info.new_snippet)
       IN  /\ files' = done.files
           /\ IF done.raised # "none"
              THEN Ended("aborted")
              ELSE /\ conversation_history' = done.history
                   /\ console' = done.printed
                   /\ files_to_edit' = Tail(files_to_edit)
                   /\ pc' = IF Tail(files_to_edit) # <<>> THEN "edits" ELSE "prompt"
                   /\ UNCHANGED <<turn, adds, cleaned_history, sent, valid_files, delivered,
                                  files_to_create, confirm, proposed>>

\* "exit" or "quit" at the input prompt.
Exit ==
    /\ pc = "prompt"
    /\ Ended("finished")
    /\ UNCHANGED files

\* End of input or an interrupt at the input prompt.
Interrupted ==
    /\ pc = "prompt"
    /\ Ended("finished")
    /\ UNCHANGED files

\* The session with rich answers: at most MaxInputs inputs (directives and
\* messages) and at most MaxProposals proposed creates and edits.
Next ==
    \/ \E path \in RawPaths : turn + adds < MaxInputs /\ AddCommand(path)
    \/ \E text \in UserTexts : turn + adds < MaxInputs /\ StartTurn(text)
    \/ \E response \in Responses(MaxProposals - proposed) : BackendReturns(response)
    \/ ApplyCreate
    \/ \E answer \in {"y", "n"} : Confirm(answer)
    \/ ConfirmInterrupted
    \/ ApplyEdit
    \/ Exit
    \/ Interrupted

Spec == Init /\ [][Next]_vars

\* The session whose backend answers every call and whose user answers
\* every confirmation prompt: the call of the backend returns or raises
\* (r1.py:304-373), console.input returns the answer (r1.py:414), and the
\* loops of main() go on to their next pass.
BackendStep ==
    \E response \in Responses(MaxProposals - proposed) : BackendReturns(response)

ConfirmStep == \E answer \in {"y", "n"} : Confirm(answer)

LiveNext ==
    \/ \E path \in RawPaths : turn + adds < MaxInputs /\ AddCommand(path)
    \/ \E text \in UserTexts : turn + adds < MaxInputs /\ StartTurn(text)
    \/ BackendStep
    \/ ApplyCreate
    \/ ConfirmStep
    \/ ApplyEdit
    \/ Exit

LiveSpec ==
    /\ Init
    /\ [][LiveNext]_vars
    /\ WF_vars(BackendStep)
    /\ WF_vars(ApplyCreate)
    /\ WF_vars(ConfirmStep)
    /\ WF_vars(ApplyEdit)

\* The long session: up to MaxTalkInputs inputs, with plain answers (a
\* failed call, an answer that is no JSON, a reply, a reply that creates one
\* file).
TalkTexts == {PlainText, Mention(PathADot)}

TalkResponses ==
    {Response("api_error", <<>>, <<>>),
     Response("bad_json", <<>>, <<>>),
     Response("ok", <<>>, <<>>),
     Response("ok", <<FileToCreate(PathB, Text(<<"a", "b">>))>>, <<>>)}

TalkInit == Init /\ files = [path \in {CanonA} |-> Text(<<"a", "b">>)]

TalkNext ==
    \/ turn + adds < MaxTalkInputs /\ adds < 1 /\ AddCommand(PathA)
    \/ \E text \in TalkTexts : turn + adds < MaxTalkInputs /\ StartTurn(text)
    \/ \E response \in TalkResponses : BackendReturns(response)
    \/ ApplyCreate
    \/ Exit

TalkSpec == TalkInit /\ [][TalkNext]_vars

\* The session on a disk that other programs use too: b.py may hold bytes
\* that are no UTF-8 text, a.py may be rewritten while the session waits, and
\* the backend may name a file after the header of a file message.
PathMarked == Rel(<<"Content of file 'x.py">>)

DiskPaths == {PathA, PathB}

DiskTexts == {PlainText, Mention(PathA), Mention(PathB)}

DiskResponses ==
    {Response("api_error", <<>>, <<>>),
     Response("ok", <<>>, <<>>),
     Response("ok", <<FileToCreate(PathMarked, Text(<<"a", "b">>))>>, <<>>),
     Response("ok", <<>>, <<FileToEdit(PathADot, <<"a">>, <<"b">>)>>),
     Response("ok", <<>>, <<FileToEdit(PathB, <<"b">>, <<"a">>)>>)}

DiskFiles ==
    {[path \in {CanonA, CanonB} |-> IF path = CanonA THEN Text(<<"a", "b">>) ELSE content] :
        content \in {Text(<<"b">>), NotUtf8}}

DiskInit ==
    /\ files \in DiskFiles
    /\ conversation_history = <<SystemPrompt>>
    /\ pc = "prompt"
    /\ turn = 0
    /\ adds = 0
    /\ cleaned_history = <<>>
    /\ sent = <<>>
    /\ valid_files = {}
    /\ delivered = "none"
    /\ files_to_create = <<>>
    /\ files_to_edit = <<>>
    /\ confirm = "none"
    /\ proposed = 0
    /\ console = <<>>

\* Another program rewrites a.py while the session waits for the user's
\* input or for the backend.
DiskChange ==
    /\ pc \in {"prompt", "awaiting"}
    /\ CanonA \in DOMAIN files
    /\ files[CanonA] # Text(<<"a", "a">>)
    /\ files' = [files EXCEPT ![CanonA] = Text(<<"a", "a">>)]
    /\ UNCHANGED <<conversation_history, pc, turn, adds, cleaned_history, sent,
                   valid_files, delivered, files_to_create, files_to_edit, confirm,
                   proposed, console>>

DiskNext ==
    \/ \E path \in DiskPaths : turn + adds < MaxDiskInputs /\ AddCommand(path)
    \/ \E text \in DiskTexts : turn + adds < MaxDiskInputs /\ StartTurn(text)
    \/ \E response \in DiskResponses : BackendReturns(response)
    \/ ApplyCreate
    \/ \E answer \in {"y", "n"} : Confirm(answer)
    \/ ApplyEdit
    \/ DiskChange
    \/ Exit

DiskSpec == DiskInit /\ [][DiskNext]_vars

\* The session of one input whose path is any of the raw paths made of up to
\* MaxSegs "." and ".." segments and a file name, relative or absolute.
PathInputs ==
    {[abs |-> abs, segs |-> Append(steps, name)] :
        abs \in BOOLEAN,
        steps \in SeqsUpTo({"..", "."}, MaxSegs),
        name \in {"a.py", "b.py"}}

PathResponses ==
    {Response("ok", <<FileToCreate(path, Text(<<"a", "b">>))>>, <<>>) : path \in PathInputs}
    \cup {Response("ok", <<>>, <<FileToEdit(path, <<"b">>, <<"a">>)>>) : path \in PathInputs}

PathInit ==
    /\ Init
    /\ files = [path \in {CanonA, CanonB} |-> IF path = CanonA THEN Text(<<"a", "b">>)
                                                 ELSE Text(<<"b">>)]

PathNext ==
    \/ \E path \in PathInputs : turn + adds < 1 /\ AddCommand(path)
    \/ \E path \in PathInputs : turn + adds < 1 /\ StartTurn(Mention(path))
    \/ \E response \in PathResponses : BackendReturns(response)
    \/ ApplyCreate
    \/ Confirm("y")
    \/ ApplyEdit
    \/ Exit

PathSpec == PathInit /\ [][PathNext]_vars

-----------------------------------------------------------------------------
(* What the claims speak of. *)

Running == pc \notin {"finished", "aborted"}

\* A FileContextEntry: the system message "Content of file '<path>':...".
IsFileEntry(msg) == msg.role = "system" /\ msg.kind = "file"

IsTurnMsg(msg) == msg.role \in {"user", "assistant"}

FileEntries(history) == SelectSeq(history, IsFileEntry)

EntriesFor(history, path) ==
    {i \in DOMAIN history : IsFileEntry(history[i]) /\ history[i].path = path}

IsPrefix(s, t) == Len(s) <= Len(t) /\ SubSeq(t, 1, Len(s)) = s

Printed(kind) == \E i \in DOMAIN console : console[i].kind = kind

-----------------------------------------------------------------------------
\* C1: in every reachable state the ledger holds at most one FileContextEntry
\* for each normalized path.
C1_AtMostOneEntryPerPath ==
    \A path \in {CanonA, CanonB} :
        Cardinality(EntriesFor(conversation_history, path)) <= 1

-----------------------------------------------------------------------------
\* The edit apply_diff_edit is about to be called with.
NextEdit == Head(files_to_edit)

\* The number of occurrences of the next edit's snippet in its file, -1 when
\* the file is missing.
NextEditOccurrences ==
    IF NextEdit.path \in DOMAIN files
    THEN count(files[NextEdit.path], NextEdit.original_snippet)
    ELSE -1

-----------------------------------------------------------------------------
\* C3: no error of a create, an edit or a file injection ends the session or
\* keeps the remaining creates and edits from being processed: main() ends
\* only from the input prompt.
C3_ErrorsAreContained ==
    [][/\ (pc = "creates" => pc' \in {"creates", "confirm", "prompt"})
       /\ (pc = "edits" => pc' \in {"edits", "prompt"})
       /\ (pc' \in {"finished", "aborted"} => pc = "prompt")]_vars

-----------------------------------------------------------------------------
\* C4: no step of a running session drops or reorders a FileContextEntry, the
\* compaction keeps exactly the entries the ledger held, in their order, and
\* the messages handed to the backend hold all of them; so an entry is sent
\* in the turn that follows its injection and in every later one.
C4_CompactionKeepsFileContext ==
    [][Running'
        => /\ IsPrefix(FileEntries(conversation_history), FileEntries(conversation_history'))
           /\ (turn' # turn
                => /\ FileEntries(cleaned_history') = FileEntries(conversation_history)
                   /\ IsPrefix(FileEntries(conversation_history), FileEntries(sent')))]_vars

\* The third turn or a later one is with the backend, and what was sent
\* holds two FileContextEntries of earlier turns.
C4_OldEntriesSent ==
    /\ pc = "awaiting"
    /\ turn >= 3
    /\ Len(FileEntries(cleaned_history)) >= 2
    /\ FileEntries(cleaned_history) = FileEntries(sent)

-----------------------------------------------------------------------------
\* The user and assistant messages of a history, without the last one when
\* their number is odd.
PairedTurns(history) ==
    LET msgs == SelectSeq(history, IsTurnMsg)
    IN  SubSeq(msgs, 1, 2 * (Len(msgs) \div 2))

\* C5: the compaction of a model turn rebuilds the ledger as the initial
\* system message, the FileContextEntries in their order, the user and
\* assistant messages in their order without the last one when their number
\* is odd, and the new user message.
C5_CompactionRebuildsLedger ==
    [][turn' # turn /\ Running'
        => /\ Len(cleaned_history') >= 2
           /\ cleaned_history'[Len(cleaned_history')].role = "user"
           /\ cleaned_history'[Len(cleaned_history')].turn = turn'
           /\ cleaned_history' =
                  <<SystemPrompt>>
                      \o FileEntries(conversation_history)
                      \o PairedTurns(conversation_history)
                      \o <<cleaned_history'[Len(cleaned_history')]>>]_vars

\* Three pairs and the unpaired user message of a failed turn were
\* compacted: the rebuilt ledger holds file context, the three pairs and
\* the new message, and nothing of the failed turn.
C5_ThreePairsAndUnpaired ==
    /\ pc = "awaiting"
    /\ Len(SelectSeq(cleaned_history, IsTurnMsg)) = 7
    /\ FileEntries(cleaned_history) # <<>>
    /\ \A i \in DOMAIN cleaned_history :
           IsTurnMsg(cleaned_history[i]) => cleaned_history[i].turn # turn - 1

-----------------------------------------------------------------------------
\* The "Applied diff edit" records of a history: one per edit applied since
\* the last compaction.
AppliedEdits(history) ==
    Len(SelectSeq(history, LAMBDA msg : msg.kind = "op" /\ msg.what = "Applied diff edit to"))

CreatedFiles(history) ==
    Len(SelectSeq(history, LAMBDA msg : msg.kind = "op" /\ msg.what = "Created/updated file at"))

\* C6: the edits are presented, and applied, only when every create of the
\* response has been applied, the creates wait for no confirmation, and an
\* edit is applied only after the answer "y" of the same turn.
C6_CreatesThenConfirmedEdits ==
    [][/\ (pc' \in {"confirm", "edits"} => files_to_create' = <<>>)
       /\ (pc' \in {"creates", "confirm"} => confirm' = "none")
       /\ (pc' = "edits" => confirm' = "y")
       /\ (AppliedEdits(conversation_history') > AppliedEdits(conversation_history)
            => pc = "edits" /\ confirm = "y" /\ files_to_create = <<>>)]_vars

\* An edit is about to be applied, after a create of the same turn and the
\* answer "y".
C6_EditAfterCreateAndConfirm ==
    /\ pc = "edits"
    /\ confirm = "y"
    /\ CreatedFiles(conversation_history) > 0

-----------------------------------------------------------------------------
\* new is old with one occurrence of snippet replaced by replacement.
ReplacedOnce(old, new, snippet, replacement) ==
    \E i \in 1..(Len(old.body) + 1) :
        /\ i + Len(snippet) - 1 <= Len(old.body)
        /\ SubSeq(old.body, i, i + Len(snippet) - 1) = snippet
        /\ new = [body |-> SubSeq(old.body, 1, i - 1) \o replacement
                           \o SubSeq(old.body, i + Len(snippet), Len(old.body)),
                  pad |-> old.pad,
                  utf8 |-> old.utf8]

\* The last FileContextEntry of a path in a history holds content.
LatestEntryHolds(history, path, content) ==
    /\ EntriesFor(history, path) # {}
    /\ \E i \in EntriesFor(history, path) :
           /\ \A j \in EntriesFor(history, path) : j <= i
           /\ history[i].content = content

\* What C7 says of a step of apply_diff_edit on a single occurrence.
EditWritten ==
    /\ NextEdit.path \in DOMAIN files'
    /\ ReplacedOnce(files[NextEdit.path], files'[NextEdit.path],
                    NextEdit.original_snippet, NextEdit.new_snippet)
    /\ LatestEntryHolds(conversation_history', NextEdit.path, files'[NextEdit.path])

\* C7 as stated: whenever the snippet occurs exactly once, apply_diff_edit
\* replaces it, writes the file and leaves a FileContextEntry with the new
\* content.
C7_UniqueEditIsWritten ==
    [][(pc = "edits" /\ NextEditOccurrences = 1) => EditWritten]_vars

\* C7 as amended: the same, when the updated content does not exceed the
\* ceiling of create_file.
C7_UniqueEditWithinCeilingIsWritten ==
    [][(/\ pc = "edits"
        /\ NextEditOccurrences = 1
        /\ ContentLen(files[NextEdit.path]) - Len(NextEdit.original_snippet)
             + Len(NextEdit.new_snippet) <= MaxContentLen)
        => EditWritten]_vars

\* The file "ab" was edited with "a" -> "b": it reads "bb" and the ledger's
\* last entry for it holds "bb".
C7_EditApplied ==
    /\ Printed("applied")
    /\ CanonA \in DOMAIN files
    /\ files[CanonA] = Text(<<"b", "b">>)
    /\ LatestEntryHolds(conversation_history, CanonA, Text(<<"b", "b">>))

-----------------------------------------------------------------------------
\* C8: every edit stream_openai_response returned has a normalized path and
\* a FileContextEntry for that path in the ledger.
C8_ValidatedEditsHaveContext ==
    \A i \in DOMAIN files_to_edit :
        /\ normalize_path(files_to_edit[i].path).ok
        /\ normalize_path(files_to_edit[i].path).path = files_to_edit[i].path
        /\ EntriesFor(conversation_history, files_to_edit[i].path) # {}

-----------------------------------------------------------------------------
\* C9: when the call fails or its output is no valid response, the turn
\* ends at once at the input prompt with the error printed, nothing to create
\* or edit, no file changed and no assistant message stored.
C9_FailedAnswerFallsBack ==
    [][(pc = "awaiting" /\ delivered' \in {"api_error", "bad_json", "invalid"})
        => /\ files_to_create' = <<>>
           /\ files_to_edit' = <<>>
           /\ files' = files
           /\ SelectSeq(conversation_history', IsTurnMsg)
                = SelectSeq(conversation_history, IsTurnMsg)
           /\ console' # <<>>
           /\ console'[Len(console')].kind \in {"api_error", "bad_json"}
           /\ pc' = "prompt"]_vars

\* The answer of the second turn was no JSON: the session is back at the
\* prompt and the ledger ends with the pair of the first turn and the
\* unanswered message of the second.
C9_BadJsonAtPrompt ==
    /\ pc = "prompt"
    /\ delivered = "bad_json"
    /\ Printed("bad_json")
    /\ turn = 2
    /\ LET msgs == SelectSeq(conversation_history, IsTurnMsg)
       IN  /\ Len(msgs) = 3
           /\ msgs[3].role = "user"

-----------------------------------------------------------------------------
NextCreate == Head(files_to_create)

\* C10: create_file writes content of up to 5,000,000 characters and records
\* it; longer content raises, and then the files and the ledger are as they
\* were, in the create loop and inside apply_diff_edit alike.
C10_CeilingIsExact ==
    [][/\ (pc = "creates" /\ ContentLen(NextCreate.content) <= MaxContentLen)
            => /\ DOMAIN files' = DOMAIN files \cup {resolve(NextCreate.path)}
               /\ files'[resolve(NextCreate.path)] = NextCreate.content
               /\ \A path \in DOMAIN files \ {resolve(NextCreate.path)} :
                      files'[path] = files[path]
               /\ conversation_history' =
                      conversation_history
                          \o <<FileOp("Created/updated file at", NextCreate.path),
                               FileEntry(resolve(NextCreate.path), NextCreate.content)>>
       /\ (pc = "creates" /\ ContentLen(NextCreate.content) > MaxContentLen)
            => /\ files' = files
               /\ conversation_history' = conversation_history
               /\ pc' = "aborted"
       /\ (/\ pc = "edits"
           /\ NextEditOccurrences = 1
           /\ ContentLen(files[NextEdit.path]) - Len(NextEdit.original_snippet)
                + Len(NextEdit.new_snippet) > MaxContentLen)
            => /\ files' = files
               /\ conversation_history' = conversation_history
               /\ console' = <<Diag("write_rejected", NextEdit.path, 0)>>]_vars

\* Content of exactly 5,000,000 characters was written over a.py.
C10_CeilingWritten ==
    /\ console = <<Diag("created", PathA, 0)>>
    /\ files[CanonA] = AtCeiling
    /\ ContentLen(files[CanonA]) = MaxContentLen

-----------------------------------------------------------------------------
\* The system prompt stands first in a history and nowhere else.
PromptFirstOnly(history) ==
    /\ history # <<>>
    /\ history[1] = SystemPrompt
    /\ \A i \in 2..Len(history) : history[i].kind # "prompt"

\* C11: while the session runs the first message of the ledger is the system
\* prompt, no other message is, and the same holds of every list of messages
\* handed to the backend.
C11_SystemPromptFirst ==
    Running
        => /\ PromptFirstOnly(conversation_history)
           /\ (sent # <<>> => PromptFirstOnly(sent))

\* The second turn is with the backend, after a compaction of a ledger that
\* held a file entry: the prompt still leads what was sent.
C11_PromptLeadsSecondTurn ==
    /\ pc = "awaiting"
    /\ turn = 2
    /\ FileEntries(cleaned_history) # <<>>
    /\ Len(SelectSeq(sent, IsTurnMsg)) = 3
    /\ sent[1] = SystemPrompt

-----------------------------------------------------------------------------
\* C12: the directive "/add <path>" hands nothing to the backend, stores no
\* user or assistant message, and leaves main() at the input prompt, with
\* the file's entry appended or the failure reported.
C12_AddReturnsToPrompt ==
    [][\A path \in DiskPaths :
          AddCommand(path)
            => /\ pc' = "prompt"
               /\ sent' = sent
               /\ turn' = turn
               /\ SelectSeq(conversation_history', IsTurnMsg)
                    = SelectSeq(conversation_history, IsTurnMsg)
               /\ \/ /\ Exists(files, path)
                     /\ conversation_history' =
                            Append(conversation_history,
                                   FileEntry(resolve(path), read_local_file(files, path)))
                  \/ /\ conversation_history' = conversation_history
                     /\ Printed("could_not_add")']_vars

-----------------------------------------------------------------------------
\* A canonical path: absolute, with no "." and no ".." segment.
Canonical(path) ==
    /\ path.abs
    /\ ".." \notin Range(path.segs)
    /\ "." \notin Range(path.segs)

\* The paths normalize_path returned and the session kept: those of the
\* file entries, of valid_files and of the validated edits.
KeptPaths ==
    {conversation_history[i].path : i \in {j \in DOMAIN conversation_history :
                                              IsFileEntry(conversation_history[j])}}
    \cup valid_files
    \cup {files_to_edit[i].path : i \in DOMAIN files_to_edit}

\* C13: normalize_path tests the parts of the resolved path, so every path
\* it accepts is absolute and free of ".." segments, and a raw path whose
\* resolved form held a ".." would be refused.
C13_AcceptedPathsHaveNoParent ==
    /\ \A path \in KeptPaths : Canonical(path)
    /\ \A path \in PathInputs :
           /\ normalize_path(path).ok => Canonical(normalize_path(path).path)
           /\ ".." \in Range(resolve(path).segs) => ~normalize_path(path).ok

\* A file was created under a raw path with a ".." segment: the entry the
\* ledger holds for it names the resolved path.
C13_ParentSegmentResolved ==
    /\ console # <<>>
    /\ console[1].kind = "created"
    /\ ".." \in Range(console[1].path.segs)
    /\ conversation_history[Len(conversation_history)]
         = FileEntry(resolve(console[1].path), Text(<<"a", "b">>))
    /\ Canonical(resolve(console[1].path))

-----------------------------------------------------------------------------
\* The new user message a compaction ended its list with.
NewUserMessage(history) == history[Len(history)]

\* C14: compacting a compacted ledger again, with the same new user message,
\* yields the same ledger: the same file entries and the same pairs, in the
\* same order, and the message once.
C14_CompactionIsIdempotent ==
    /\ cleaned_history # <<>>
        => LET again == compact(cleaned_history, NewUserMessage(cleaned_history))
           IN  /\ again = cleaned_history
               /\ FileEntries(again) = FileEntries(cleaned_history)
               /\ PairedTurns(again) = PairedTurns(cleaned_history)
    /\ Running
        => \A text \in TalkTexts :
               LET user_msg == UserMsg(turn + 1, text)
                   once == compact(conversation_history, user_msg)
               IN  compact(once, user_msg) = once

\* A ledger with two file entries, two pairs and the unpaired message of a
\* failed turn was compacted.
C14_CompactedRichLedger ==
    /\ pc = "awaiting"
    /\ Len(FileEntries(cleaned_history)) >= 2
    /\ Len(SelectSeq(cleaned_history, IsTurnMsg)) = 5
    /\ turn = 4
    /\ compact(cleaned_history, NewUserMessage(cleaned_history)) = cleaned_history

-----------------------------------------------------------------------------
\* The messages are user, assistant, user, assistant, ..., each assistant
\* message answering the user message before it.
Alternates(msgs) ==
    /\ Len(msgs) % 2 = 0
    /\ \A i \in DOMAIN msgs :
           /\ msgs[i].role = IF i % 2 = 1 THEN "user" ELSE "assistant"
           /\ i % 2 = 0 => msgs[i].turn = msgs[i - 1].turn

\* C15: in every list of messages handed to the backend, the user and
\* assistant messages before the new user message are complete pairs in
\* strict alternation, and the new user message ends them.
C15_SentPairsAlternate ==
    sent # <<>>
        => LET msgs == SelectSeq(sent, IsTurnMsg)
           IN  /\ msgs # <<>>
               /\ msgs[Len(msgs)].role = "user"
               /\ msgs[Len(msgs)].turn = turn
               /\ Alternates(SubSeq(msgs, 1, Len(msgs) - 1))

\* The fifth turn is with the backend after two answered turns and two
\* turns that failed: two pairs and the new message were sent, and nothing
\* of the failed turns.
C15_PairsAfterFailures ==
    /\ pc = "awaiting"
    /\ turn = 5
    /\ Len(SelectSeq(sent, IsTurnMsg)) = 5
    /\ \E i, j \in 1..4 :
           /\ i # j
           /\ \A k \in DOMAIN sent : IsTurnMsg(sent[k]) => sent[k].turn \notin {i, j}

-----------------------------------------------------------------------------
\* main() is in a model turn: it waits for the backend, applies creates,
\* waits at the confirmation prompt or applies edits.
InTurn == pc \in {"awaiting", "creates", "confirm", "edits"}

\* C16: a turn that left the input prompt returns to it, when the backend
\* answers and the confirmation prompt is answered.
C16_TurnReturnsToPrompt == InTurn ~> (pc = "prompt")

-----------------------------------------------------------------------------
\* The last user or assistant message of a history is the answer of turn n,
\* and the message before it the user message of that turn.
EndsWithPair(history, n) ==
    LET msgs == SelectSeq(history, IsTurnMsg)
    IN  /\ Len(msgs) >= 2
        /\ msgs[Len(msgs)] = AssistantMsg(n)
        /\ msgs[Len(msgs) - 1].role = "user"
        /\ msgs[Len(msgs) - 1].turn = n

\* C17: an answer other than "y" at the confirmation prompt changes no file
\* and no message of the ledger and leaves no edit to apply; the answer that
\* carried the proposal stays the last message of its pair, and the next
\* model turn sends that pair, before its own user message.
C17_DeclinedEditsChangeNothing ==
    [][/\ (pc = "confirm" /\ confirm' = "n")
            => /\ files' = files
               /\ conversation_history' = conversation_history
               /\ files_to_edit' = <<>>
               /\ pc' = "prompt"
               /\ EndsWithPair(conversation_history', turn)
       /\ (pc = "prompt" /\ confirm = "n" /\ turn' = turn + 1)
            => LET msgs == SelectSeq(sent', IsTurnMsg)
               IN  /\ msgs[Len(msgs)].role = "user"
                   /\ msgs[Len(msgs)].turn = turn'
                   /\ EndsWithPair(SubSeq(msgs, 1, Len(msgs) - 1), turn)]_vars

\* The edit of a.py proposed in the first turn was declined: main() is
\* back at the prompt, a.py reads as before and the proposal is in the ledger.
C17_EditsDeclined ==
    /\ pc = "prompt"
    /\ confirm = "n"
    /\ console = <<Diag("skipped", NoPath, 0)>>
    /\ turn = 1
    /\ CanonA \in DOMAIN files
    /\ files[CanonA] = Text(<<"a", "b">>)
    /\ EntriesFor(conversation_history, CanonA) # {}
    /\ EndsWithPair(conversation_history, 1)

-----------------------------------------------------------------------------
\* The FileContextEntries of a path in a history, in order.
EntriesOf(history, path) ==
    SelectSeq(history, LAMBDA msg : IsFileEntry(msg) /\ msg.path = path)

\* C18: once a path has an entry in the ledger, the start of a model turn
\* (compaction and guessed files) and the validation of proposed edits leave
\* the entries of that path as they are, whatever the file holds on disk by
\* then; they change only by /add and by the writes of create_file and
\* apply_diff_edit.
C18_EntriesAreNotRefreshed ==
    [][\A path \in {CanonA, CanonB, resolve(PathMarked)} :
          (EntriesOf(conversation_history, path) # <<>> /\ Running')
            => /\ (turn' # turn \/ pc = "awaiting")
                    => EntriesOf(conversation_history', path)
                         = EntriesOf(conversation_history, path)
               /\ EntriesOf(conversation_history', path) # EntriesOf(conversation_history, path)
                    => (adds' = adds + 1 \/ pc \in {"creates", "edits"})]_vars

\* a.py had its entry, was rewritten by another program, and then an edit
\* of it was proposed and validated: the ledger still holds the one entry
\* with the old text.
C18_StaleEntryKept ==
    /\ pc = "confirm"
    /\ Len(files_to_edit) = 1
    /\ files_to_edit[1].path = CanonA
    /\ files[CanonA] = Text(<<"a", "a">>)
    /\ EntriesOf(conversation_history, CanonA) = <<FileEntry(CanonA, Text(<<"a", "b">>))>>

-----------------------------------------------------------------------------
\* C19: no "File operation: ..." message is part of a list of messages
\* handed to the backend.
C19_FileOperationsNeverSent ==
    \A i \in DOMAIN sent : sent[i].kind # "op"

-----------------------------------------------------------------------------
====
